---- MODULE Spec2Model ----
(***************************************************************************)
(* Bitcoin Mini Analytics (src/app.py): the address validator, the         *)
(* address-type and script-risk classifiers, the watchlist table and the   *)
(* three endpoints that take a user-supplied address, with the quantum     *)
(* exposure assessor modelled statement by statement.                      *)
(*                                                                         *)
(* Strings are sequences of one-character strings, so that lower(),        *)
(* startswith() and the regular expression act on characters.  JSON values *)
(* that the code only inspects by type are tagged records of one shape.    *)
(* An amount in whole coins is the fraction num / den with den = SatPerBtc *)
(* (float rounding is not modelled).                                       *)
(***************************************************************************)
EXTENDS Integers, Sequences, FiniteSets, TLC

VARIABLES
    pc,         \* "idle": the server waits; "serving": a request is with its handler;
                \* "done": the handler produced the response
    req,        \* the request being served (endpoint and its inputs, upstream behaviour included)
    resp,       \* the response of the request: kind, HTTP status, body
    calls,      \* the external calls the request issued, in order
    watchlist   \* the WatchItem table, in insertion (created_at) order

vars == <<pc, req, resp, calls, watchlist>>

-----------------------------------------------------------------------------
(* Characters and strings                                                  *)

UPPER == <<"A","B","C","D","E","F","G","H","I","J","K","L","M",
           "N","O","P","Q","R","S","T","U","V","W","X","Y","Z">>
LOWER == <<"a","b","c","d","e","f","g","h","i","j","k","l","m",
           "n","o","p","q","r","s","t","u","v","w","x","y","z">>
DIGITS == {"0","1","2","3","4","5","6","7","8","9"}

Range(s) == {s[i] : i \in DOMAIN s}

\* The newline character.
NL == "\n"

\* str.lower() on one character, and on a string.
LowerChar(c) ==
    IF \E i \in DOMAIN UPPER : UPPER[i] = c
    THEN LOWER[CHOOSE i \in DOMAIN UPPER : UPPER[i] = c]
    ELSE c

UpperChar(c) ==
    IF \E i \in DOMAIN LOWER : LOWER[i] = c
    THEN UPPER[CHOOSE i \in DOMAIN LOWER : LOWER[i] = c]
    ELSE c

Lower(s) == [i \in DOMAIN s |-> LowerChar(s[i])]

\* str.startswith(p)
StartsWith(s, p) == Len(s) >= Len(p) /\ SubSeq(s, 1, Len(p)) = p

-----------------------------------------------------------------------------
(* MAINNET_ADDR_RE = ^(bc1|[13])[a-zA-HJ-NP-Z0-9]{25,87}$                  *)

MinBody == 25
MaxBody == 87

\* The character class [a-zA-HJ-NP-Z0-9].
AddrClass == Range(LOWER) \cup (Range(UPPER) \ {"I", "O"}) \cup DIGITS

\* The part of s the pattern must cover: Python's $ also matches just before
\* a newline that ends the string.
AnchoredCores(s) ==
    {s} \cup (IF Len(s) > 0 /\ s[Len(s)] = NL THEN {SubSeq(s, 1, Len(s) - 1)} ELSE {})

\* The lengths of the prefixes of s that (bc1|[13]) can match.
PrefixLens(s) ==
    (IF StartsWith(s, <<"b", "c", "1">>) THEN {3} ELSE {})
    \cup (IF Len(s) >= 1 /\ s[1] \in {"1", "3"} THEN {1} ELSE {})

BodyOk(b) == Len(b) >= MinBody /\ Len(b) <= MaxBody /\ Range(b) \subseteq AddrClass

MAINNET_ADDR_RE_match(s) ==
    \E core \in AnchoredCores(s) : \E p \in PrefixLens(core) :
        BodyOk(SubSeq(core, p + 1, Len(core)))

validate_btc_addr(addr) == MAINNET_ADDR_RE_match(addr)

-----------------------------------------------------------------------------
(* infer_addr_type and classify_script_type                                *)

infer_addr_type(addr) ==
    LET a == Lower(addr) IN
    IF StartsWith(a, <<"b", "c", "1", "p">>) THEN "p2tr"
    ELSE IF StartsWith(a, <<"b", "c", "1", "q">>) THEN "p2wpkh_or_wsh"
    ELSE IF StartsWith(a, <<"1">>) THEN "p2pkh"
    ELSE IF StartsWith(a, <<"3">>) THEN "p2sh"
    ELSE "unknown"

\* A JSON scalar as the code sees it: null (Python None, also what .get()
\* gives for a missing key), a string, a number, or a non-empty list or object
\* whose content the code never reads.
JNull == [t |-> "null", s |-> <<>>, n |-> 0]
JStr(str) == [t |-> "str", s |-> str, n |-> 0]
JNum(k) == [t |-> "num", s |-> <<>>, n |-> k]
JList == [t |-> "list", s |-> <<>>, n |-> 0]

\* Python truthiness of a scalar ("not x" is its negation).
Truthy(j) ==
    CASE j.t = "null" -> FALSE
      [] j.t = "str" -> j.s # <<>>
      [] j.t = "num" -> j.n # 0
      [] OTHER -> TRUE

P2PK == <<"p","2","p","k">>
V1_P2TR == <<"v","1","_","p","2","t","r">>
P2PKH == <<"p","2","p","k","h">>
V0_P2WPKH == <<"v","0","_","p","2","w","p","k","h">>

EXPOSED_TYPES == {P2PK, V1_P2TR}
HASHED_TYPES == {P2PKH, V0_P2WPKH}

\* classify_script_type without the .lower() of line 109.
classify_script_type_nolower(script_type) ==
    IF ~Truthy(script_type) THEN "unknown"
    ELSE IF script_type.s \in EXPOSED_TYPES THEN "exposed"
    ELSE IF script_type.s \in HASHED_TYPES THEN "hashed"
    ELSE "unknown"

\* classify_script_type on an optional string (None is JNull): the risk label.
classify_script_type(script_type) ==
    IF ~Truthy(script_type) THEN "unknown"
    ELSE LET st == Lower(script_type.s) IN
         IF st \in EXPOSED_TYPES THEN "exposed"
         ELSE IF st \in HASHED_TYPES THEN "hashed"
         ELSE "unknown"

\* Whether classify_script_type raises: .lower() on a truthy value that is no string.
classify_raises(script_type) == Truthy(script_type) /\ script_type.t # "str"

-----------------------------------------------------------------------------
(* fetch_json and the external sources                                     *)

\* What one GET of fetch_json does: it returns the parsed body ("ok"), raises
\* httpx.HTTPStatusError with the upstream status ("http"), or raises some
\* other exception, such as a timeout or a body that is no JSON ("err").
Ok(j) == [k |-> "ok", status |-> 200, json |-> j]
HttpError(status, j) == [k |-> "http", status |-> status, json |-> j]
OtherError(j) == [k |-> "err", status |-> 0, json |-> j]

HttpErrStatuses == {400, 404, 503}

Call(api, arg) == [api |-> api, arg |-> arg]

\* --- transactions (blockstream.info/api/tx/{txid}) ---
Out(stype) == [t |-> "dict", scriptpubkey_type |-> stype]
OutNotDict == [t |-> "num", scriptpubkey_type |-> JNull]
Tx(outs) == [t |-> "dict", vout_t |-> "list", vout |-> outs]
TxNoVout == [t |-> "dict", vout_t |-> "absent", vout |-> <<>>]
TxNotDict == [t |-> "list", vout_t |-> "absent", vout |-> <<>>]

TxA == JStr(<<"a">>)
TxB == JStr(<<"b">>)
TxC == JStr(<<"c">>)
TxD == JStr(<<"d">>)
TxE == JStr(<<"e">>)
TxF == JStr(<<"f">>)
TxG == JStr(<<"g">>)

\* The transaction source the assessor is run against: one transaction of
\* each kind the loop body distinguishes.  A txid of None is fetched as
\* ".../tx/None", which the source answers with an error status.
TxSource(txid) ==
    CASE txid = TxA -> Ok(Tx(<<Out(JStr(P2PK)), Out(JStr(P2PKH))>>))
      [] txid = TxB -> Ok(Tx(<<Out(JStr(<<"V","1","_","P","2","T","R">>)),
                             Out(JStr(V0_P2WPKH)),
                             Out(JStr(<<"p","2","s","h">>)),
                             Out(JNull)>>))
      [] txid = TxC -> HttpError(404, TxNotDict)
      [] txid = TxD -> OtherError(TxNotDict)
      [] txid = TxE -> Ok(TxNotDict)
      [] txid = TxF -> Ok(Tx(<<Out(JNum(5)), OutNotDict>>))
      [] txid = TxG -> Ok(TxNoVout)
      [] OTHER -> HttpError(400, TxNotDict)

\* --- UTXO set (blockstream.info/api/address/{addr}/utxo) ---
Utxo(txid, vout, value) == [t |-> "dict", txid |-> txid, vout |-> vout, value |-> value]
UtxoNotDict == [t |-> "num", txid |-> JNull, vout |-> JNull, value |-> JNull]
UtxoList(items) == [t |-> "list", items |-> items]
UtxoSetNotList(tag) == [t |-> tag, items |-> <<>>]

\* --- address summary (blockstream.info/api/address/{addr}) ---
Summary(spent_count, funded, spent) ==
    [t |-> "dict", chain_t |-> "dict", spent_txo_count |-> spent_count,
     funded_txo_sum |-> funded, spent_txo_sum |-> spent]
SummaryChain(tag) ==
    [t |-> "dict", chain_t |-> tag, spent_txo_count |-> JNull,
     funded_txo_sum |-> 0, spent_txo_sum |-> 0]
SummaryNotDict ==
    [t |-> "list", chain_t |-> "absent", spent_txo_count |-> JNull,
     funded_txo_sum |-> 0, spent_txo_sum |-> 0]

-----------------------------------------------------------------------------
(* quantum_exposure                                                        *)

Cap == 50
SatPerBtc == 100000000

Min(a, b) == IF a <= b THEN a ELSE b
Max(a, b) == IF a >= b THEN a ELSE b

\* utxos[:51]: the cap off by one.
Retained_offbyone(items) == SubSeq(items, 1, Min(Len(items), Cap + 1))

\* utxos[:50]
Retained(items) == SubSeq(items, 1, Min(Len(items), Cap))

\* int() of a string of decimal digits; anything else raises ValueError.
RECURSIVE DigitsValue(_)
DigitsValue(s) ==
    IF s = <<>> THEN 0
    ELSE 10 * DigitsValue(SubSeq(s, 1, Len(s) - 1))
         + (CHOOSE d \in 0..9 : ToString(d) = s[Len(s)])
IsDigits(s) == s # <<>> /\ Range(s) \subseteq DIGITS

\* vouts[vout_index].get("scriptpubkey_type") (line 248): None when the
\* index is out of range (IndexError) or the output is no object
\* (AttributeError), both caught at line 249.  A negative index counts from
\* the end of the list, as Python's does.
OutputType(vouts, idx) ==
    IF idx \notin DOMAIN vouts THEN JNull
    ELSE IF vouts[idx].t # "dict" THEN JNull
    ELSE vouts[idx].scriptpubkey_type
PyIndex(len, n) == IF n >= 0 THEN n + 1 ELSE len + n + 1

\* The try block of the loop body (lines 244-250) given what the lookup r
\* does: the script type of the output the UTXO names, or None when the
\* lookup raises, the reply is no object, "vout" is no list, or the index is
\* None, not an integer or not below len(vouts).
ScriptTypeIn(u, r) ==
    IF r.k # "ok" \/ r.json.t # "dict" THEN JNull
    ELSE IF r.json.vout_t \notin {"list", "absent"} THEN JNull
    ELSE IF u.vout.t # "num" THEN JNull
    ELSE IF ~(u.vout.n < Len(r.json.vout)) THEN JNull
    ELSE OutputType(r.json.vout, PyIndex(Len(r.json.vout), u.vout.n))

ScriptTypeOf(u) == ScriptTypeIn(u, TxSource(u.txid))

\* An amount in whole coins: sat / 1e8, kept as the fraction it is.
Btc(sat) == [num |-> sat, den |-> SatPerBtc]
AddBtc(a, b) == [num |-> a.num + b.num, den |-> SatPerBtc]

\* (u.get("value", 0) or 0) / 1e8; dividing anything but a number raises.
ValueRaises(u) == Truthy(u.value) /\ u.value.t # "num"
value_btc(u) == Btc(IF Truthy(u.value) THEN u.value.n ELSE 0)

\* Lines 251-260 with "risk != 'unknown'" for "risk == 'exposed'" at line 252.
Entry_notunknown(u, script_type, risk) ==
    [raised |-> classify_raises(script_type),
     calls |-> <<Call("tx", u.txid)>>,
     exposed |-> IF risk # "unknown" THEN value_btc(u) ELSE Btc(0),
     entry |-> [txid |-> u.txid, vout |-> u.vout, value_btc |-> value_btc(u),
                scriptpubkey_type |-> script_type, risk |-> risk]]

\* Lines 251-260: the entry appended for u and what it adds to exposed_value.
Entry(u, script_type, risk) ==
    [raised |-> classify_raises(script_type),
     calls |-> <<Call("tx", u.txid)>>,
     exposed |-> IF risk = "exposed" THEN value_btc(u) ELSE Btc(0),
     entry |-> [txid |-> u.txid, vout |-> u.vout, value_btc |-> value_btc(u),
                scriptpubkey_type |-> script_type, risk |-> risk]]

Classified(u, script_type) == Entry(u, script_type, classify_script_type(script_type))

\* The loop body without the try/except of lines 244-250: a failed lookup leaves the loop.
AnalyzeOne_notry(u) ==
    IF u.t # "dict" \/ ValueRaises(u)
    THEN [raised |-> TRUE, calls |-> <<>>, exposed |-> Btc(0), entry |-> <<>>]
    ELSE IF TxSource(u.txid).k # "ok"
    THEN [raised |-> TRUE, calls |-> <<Call("tx", u.txid)>>, exposed |-> Btc(0), entry |-> <<>>]
    ELSE Classified(u, ScriptTypeOf(u))

\* One pass of the loop body (lines 240-260) for the UTXO entry u; raised
\* says that an exception left the loop.
AnalyzeOne(u) ==
    IF u.t # "dict" \/ ValueRaises(u)
    THEN [raised |-> TRUE, calls |-> <<>>, exposed |-> Btc(0), entry |-> <<>>]
    ELSE Classified(u, ScriptTypeOf(u))

Accumulate(acc, one) ==
    [raised |-> one.raised,
     calls |-> acc.calls \o one.calls,
     exposed_value |-> IF one.raised THEN acc.exposed_value
                       ELSE AddBtc(acc.exposed_value, one.exposed),
     analyzed |-> IF one.raised THEN acc.analyzed ELSE Append(acc.analyzed, one.entry)]

\* The loop (lines 237-260) from entry i on; it stops at the first entry that raises.
RECURSIVE AnalyzeLoop(_, _, _)
AnalyzeLoop(items, i, acc) ==
    IF i > Len(items) \/ acc.raised THEN acc
    ELSE AnalyzeLoop(items, i + 1, Accumulate(acc, AnalyzeOne(items[i])))

Analyze(items) ==
    AnalyzeLoop(Retained(items), 1,
        [raised |-> FALSE, calls |-> <<>>, exposed_value |-> Btc(0), analyzed |-> <<>>])

\* Lines 263-264: chain_stats and int(spent_txo_count or 0).
ChainStatsRaises(addr_info) ==
    addr_info.t = "dict" /\ addr_info.chain_t \notin {"dict", "absent"}
SpentCountRaw(addr_info) ==
    IF addr_info.t = "dict" /\ addr_info.chain_t = "dict"
    THEN addr_info.spent_txo_count ELSE JNull
IntRaises(x) ==
    Truthy(x) /\ (x.t \in {"list", "dict"} \/ (x.t = "str" /\ ~IsDigits(x.s)))
IntOf(x) ==
    IF ~Truthy(x) THEN 0
    ELSE IF x.t = "str" THEN DigitsValue(x.s)
    ELSE x.n
SpentCountRaises(addr_info) == IntRaises(SpentCountRaw(addr_info))
spent_txo_count(addr_info) == IntOf(SpentCountRaw(addr_info))

\* Line 266.
reuse_pubkey_exposed(spent, addr_type_hint, analyzed) ==
    spent > 0 /\ addr_type_hint \in {"p2pkh", "p2wpkh_or_wsh"} /\ Len(analyzed) > 0

\* Lines 268-273 with the two tests in the other order.
overall_risk_reusefirst(analyzed, reuse) ==
    IF reuse THEN "elevated"
    ELSE IF \E i \in DOMAIN analyzed : analyzed[i].risk = "exposed" THEN "high"
    ELSE "low"

\* Lines 268-273.
overall_risk(analyzed, reuse) ==
    IF \E i \in DOMAIN analyzed : analyzed[i].risk = "exposed" THEN "high"
    ELSE IF reuse THEN "elevated"
    ELSE "low"

ReuseNote == "Address appears reused"
MigrateNote == "Some UTXOs are Taproot/P2PK"

\* Lines 275-279 with "elif" for the second "if".
notes_of_elif(reuse, overall) ==
    IF reuse THEN <<ReuseNote>>
    ELSE IF overall = "high" THEN <<MigrateNote>>
    ELSE <<>>

\* Lines 275-279.
notes_of(reuse, overall) ==
    (IF reuse THEN <<ReuseNote>> ELSE <<>>)
    \o (IF overall = "high" THEN <<MigrateNote>> ELSE <<>>)

NoBody == [none |-> TRUE]
Response(kind, status, body) == [kind |-> kind, status |-> status, body |-> body]
Invalid == Response("invalid", 400, NoBody)
Upstream(status) == Response("upstream", status, NoBody)
Generic == Response("generic", 502, NoBody)
\* An exception no handler catches: the framework answers 500.
Unhandled == Response("unhandled", 500, NoBody)

\* Lines 281-289.
Report(addr, addr_type_hint, a, reuse, overall) ==
    Response("report", 200,
        [address |-> addr,
         address_type_hint |-> addr_type_hint,
         overall_risk |-> overall,
         exposed_value_btc |-> a.exposed_value,
         analyzed_utxos |-> Len(a.analyzed),
         utxos |-> a.analyzed,
         notes |-> notes_of(reuse, overall)])

Verdict(addr, addr_type_hint, a, reuse) ==
    Report(addr, addr_type_hint, a, reuse, overall_risk(a.analyzed, reuse))

\* Lines 262-289, after a loop that ended as a.
AfterLoop(addr, addr_info, a) ==
    IF a.raised \/ ChainStatsRaises(addr_info) \/ SpentCountRaises(addr_info)
    THEN [resp |-> Unhandled, calls |-> a.calls]
    ELSE [resp |-> Verdict(addr, infer_addr_type(addr), a,
                      reuse_pubkey_exposed(spent_txo_count(addr_info),
                                           infer_addr_type(addr), a.analyzed)),
          calls |-> a.calls]

\* Lines 237-289, once both fetches returned: the response and the lookups
\* issued.  Slicing anything but a list raises.
Assess(addr, addr_info, utxos) ==
    IF utxos.t # "list" THEN [resp |-> Unhandled, calls |-> <<>>]
    ELSE AfterLoop(addr, addr_info, Analyze(utxos.items))

Prepend(c, r) == [resp |-> r.resp, calls |-> c \o r.calls]

\* The handler with one "except Exception" for both kinds of failure (no lines 232-233).
quantum_exposure_oneexcept(addr, summary, utxo) ==
    IF ~validate_btc_addr(addr) THEN [resp |-> Invalid, calls |-> <<>>]
    ELSE IF summary.k # "ok"
    THEN [resp |-> Generic, calls |-> <<Call("summary", JStr(addr))>>]
    ELSE IF utxo.k # "ok"
    THEN [resp |-> Generic,
          calls |-> <<Call("summary", JStr(addr)), Call("utxo", JStr(addr))>>]
    ELSE Prepend(<<Call("summary", JStr(addr)), Call("utxo", JStr(addr))>>,
                 Assess(addr, summary.json, utxo.json))

\* The handler (lines 226-289) for one request: summary and utxo say what the
\* two address lookups do when issued.
quantum_exposure(addr, summary, utxo) ==
    IF ~validate_btc_addr(addr) THEN [resp |-> Invalid, calls |-> <<>>]
    ELSE IF summary.k = "http"
    THEN [resp |-> Upstream(summary.status), calls |-> <<Call("summary", JStr(addr))>>]
    ELSE IF summary.k = "err"
    THEN [resp |-> Generic, calls |-> <<Call("summary", JStr(addr))>>]
    ELSE IF utxo.k = "http"
    THEN [resp |-> Upstream(utxo.status),
          calls |-> <<Call("summary", JStr(addr)), Call("utxo", JStr(addr))>>]
    ELSE IF utxo.k = "err"
    THEN [resp |-> Generic,
          calls |-> <<Call("summary", JStr(addr)), Call("utxo", JStr(addr))>>]
    ELSE Prepend(<<Call("summary", JStr(addr)), Call("utxo", JStr(addr))>>,
                 Assess(addr, summary.json, utxo.json))

-----------------------------------------------------------------------------
(* _address_summary, refresh_address, add_watch, list_watch                *)

\* _address_summary (lines 158-172) on what its fetch does: the exception it
\* lets through ("http" with the status, or "other"), or the two amounts.
\* mempool_stats is taken as absent.
Amounts(funded, spent) ==
    [raises |-> "no", status |-> 0,
     received_btc |-> Btc(funded), balance_btc |-> Btc(Max(funded - spent, 0))]
address_summary(r) ==
    IF r.k = "http"
    THEN [raises |-> "http", status |-> r.status, received_btc |-> Btc(0), balance_btc |-> Btc(0)]
    ELSE IF r.k = "err" \/ r.json.t # "dict" \/ r.json.chain_t \notin {"dict", "absent"}
    THEN [raises |-> "other", status |-> 0, received_btc |-> Btc(0), balance_btc |-> Btc(0)]
    ELSE IF r.json.chain_t = "absent" THEN Amounts(0, 0)
    ELSE Amounts(r.json.funded_txo_sum, r.json.spent_txo_sum)

\* refresh_address (lines 205-214): only HTTPStatusError is caught.
Passthrough(addr, r) ==
    [resp |-> IF r.raises = "http" THEN Upstream(r.status)
              ELSE IF r.raises = "other" THEN Unhandled
              ELSE Response("summary", 200,
                      [received_btc |-> r.received_btc, balance_btc |-> r.balance_btc]),
     calls |-> <<Call("summary", JStr(addr))>>]
refresh_address(addr, summary) ==
    IF ~validate_btc_addr(addr) THEN [resp |-> Invalid, calls |-> <<>>]
    ELSE Passthrough(addr, address_summary(summary))

\* The label test as a plain SQL "=", which no NULL satisfies.
LabelMatches_plaineq(row_label, label) ==
    row_label.t = "str" /\ label.t = "str" /\ row_label.s = label.s

\* WatchItem.label == item.label as SQL: IS NULL for None, = otherwise.
LabelMatches(row_label, label) ==
    IF label.t = "null" THEN row_label.t = "null"
    ELSE row_label.t = "str" /\ row_label.s = label.s

\* select(WatchItem).where(address == ..., label == ...), in table order.
Matching(table, item) ==
    SelectSeq(table, LAMBDA row : row.address = item.address /\ LabelMatches(row.label, item.label))

\* The primary key of a new row: one past the largest id in the table.
RECURSIVE MaxId(_)
MaxId(table) ==
    IF table = <<>> THEN 0 ELSE Max(table[Len(table)].id, MaxId(SubSeq(table, 1, Len(table) - 1)))
NewRow(table, item) == [id |-> MaxId(table) + 1, address |-> item.address, label |-> item.label]

\* add_watch (lines 174-187): the response and the table afterwards.
Watched(id, table) == [resp |-> Response("watch", 200, [ok |-> TRUE, id |-> id]), table |-> table]
Upsert(table, item, found) ==
    IF found # <<>> THEN Watched(found[1].id, table)
    ELSE Watched(NewRow(table, item).id, Append(table, NewRow(table, item)))
add_watch(table, item) ==
    IF ~validate_btc_addr(item.address) THEN [resp |-> Invalid, table |-> table]
    ELSE Upsert(table, item, Matching(table, item))

\* list_watch (lines 189-203): source says what the summary lookup of each
\* stored address does; a row whose lookup raises gets None for both amounts.
Some(v) == [some |-> TRUE, v |-> v]
None == [some |-> FALSE, v |-> Btc(0)]
Enriched(wi, sum) ==
    [id |-> wi.id, label |-> wi.label, address |-> wi.address,
     received_btc |-> IF sum.raises = "no" THEN Some(sum.received_btc) ELSE None,
     balance_btc |-> IF sum.raises = "no" THEN Some(sum.balance_btc) ELSE None]
list_watch(table, source) ==
    [resp |-> Response("list", 200,
                 [i \in DOMAIN table |-> Enriched(table[i], address_summary(source[table[i].address]))]),
     calls |-> [i \in DOMAIN table |-> Call("summary", JStr(table[i].address))]]

-----------------------------------------------------------------------------
(* The inputs the endpoints are run on                                     *)

\* An address: prefix, then a body of n characters that starts with head and
\* ends with last, then tail.
MkAddr(prefix, head, n, last, tail) ==
    prefix \o [i \in 1..n |-> IF i = 1 THEN head ELSE IF i = n THEN last ELSE "z"] \o tail

\* Body lengths around both ends of {25,87}.
BodyLens == {MinBody - 1, MinBody, MaxBody, MaxBody + 1}

GatePrefixes ==
    {<<"b","c","1">>, <<"1">>, <<"3">>, <<"2">>, <<"B","C","1">>, <<"t","b","1">>, <<>>}

GateAddrs ==
    {MkAddr(p, "q", n, last, tail) :
        p \in GatePrefixes, n \in BodyLens, last \in {"7", "O", "-"}, tail \in {<<>>, <<NL>>}}

AddrP2pkh == MkAddr(<<"1">>, "A", MinBody, "7", <<>>)
AddrP2sh == MkAddr(<<"3">>, "J", MinBody, "7", <<>>)
AddrBc1q == MkAddr(<<"b","c","1">>, "q", MaxBody, "7", <<>>)
AddrBc1Q == MkAddr(<<"b","c","1">>, "Q", MinBody, "7", <<>>)
AddrBc1p == MkAddr(<<"b","c","1">>, "p", MaxBody, "7", <<>>)
AddrBc1z == MkAddr(<<"b","c","1">>, "z", MinBody, "7", <<>>)
AddrBad == MkAddr(<<"1">>, "A", MinBody, "O", <<>>)

QEAddrs == {AddrP2pkh, AddrP2sh, AddrBc1q, AddrBc1Q, AddrBc1p, AddrBc1z, AddrBad}

\* Address summaries.
SummariesOk ==
    {Ok(Summary(JNum(2), 10, 4)), Ok(Summary(JNum(0), 10, 0)),
     Ok(Summary(JNull, 0, 0)), Ok(SummaryChain("absent"))}
SummariesMalformed ==
    {Ok(SummaryNotDict), Ok(SummaryChain("null")), Ok(SummaryChain("list")),
     Ok(Summary(JStr(<<"x">>), 10, 4)), Ok(Summary(JStr(<<"1","2">>), 10, 4)),
     Ok(Summary(JList, 10, 4))}
FetchFailures(j) == {HttpError(st, j) : st \in HttpErrStatuses} \cup {OtherError(j)}
Summaries == SummariesOk \cup SummariesMalformed \cup FetchFailures(SummaryNotDict)

\* UTXO entries, one of each kind the loop body distinguishes.
UtxoExposed == Utxo(TxA, JNum(0), JNum(5))
UtxoHashed == Utxo(TxA, JNum(1), JNum(7))
UtxosOk ==
    {UtxoExposed, UtxoHashed,
     Utxo(TxB, JNum(0), JNum(3)),      \* V1_P2TR in upper case
     Utxo(TxB, JNum(1), JNum(2)),      \* v0_p2wpkh
     Utxo(TxB, JNum(2), JNum(1)),      \* p2sh
     Utxo(TxB, JNum(3), JNum(9)),      \* scriptpubkey_type null
     Utxo(TxA, JNum(0), JNull),        \* no value
     Utxo(TxC, JNum(0), JNum(11)),     \* lookup answers 404
     Utxo(TxD, JNum(0), JNum(13)),     \* lookup times out
     Utxo(JNull, JNum(0), JNum(15)),   \* no txid
     Utxo(TxA, JNum(2), JNum(17)),     \* vout one past the outputs
     Utxo(TxA, JNull, JNum(19)),       \* no vout
     Utxo(TxE, JNum(0), JNum(23)),     \* transaction is no object
     Utxo(TxF, JNum(1), JNum(27)),     \* output is no object
     Utxo(TxG, JNum(0), JNum(29))}     \* transaction without "vout"
UtxosMalformed ==
    {UtxoNotDict,                          \* an entry that is no object
     Utxo(TxA, JNum(0), JStr(<<"5">>)),    \* value is a string
     Utxo(TxF, JNum(0), JNum(31)),         \* scriptpubkey_type is a number
     Utxo(TxA, JNum(-1), JNum(33))}        \* a negative vout
UtxoKinds == UtxosOk \cup UtxosMalformed

SmallLen == 3
Over == 2

\* n entries, all base but the j-th, which is special.
ListOf(n, base, j, special) == [i \in 1..n |-> IF i = j THEN special ELSE base]
UtxoBases == {UtxoExposed, UtxoHashed}
SmallLens == 1..SmallLen
BigLens == (Cap - 1)..(Cap + Over)

UtxoSetsMalformed == {Ok(UtxoSetNotList("dict")), Ok(UtxoSetNotList("null"))}
UtxoSetsOther ==
    {Ok(UtxoList(<<>>))} \cup UtxoSetsMalformed \cup FetchFailures(UtxoSetNotList("null"))

\* What the long UTXO sets are combined with: a reused and a fresh address
\* summary, and the entry kinds that decide the verdict or end the loop.
SummariesForBig == {Ok(Summary(JNum(2), 10, 4)), Ok(Summary(JNum(0), 10, 0))}
BigKinds ==
    {UtxoExposed, UtxoHashed, Utxo(TxB, JNum(0), JNum(3)), Utxo(TxC, JNum(0), JNum(11)),
     Utxo(TxA, JNum(2), JNum(17)), UtxoNotDict}

\* Script types for classify_script_type: None, every spelling of the four
\* listed names in upper and lower case, and strings that are none of them.
RECURSIVE CaseVariants(_)
CaseVariants(str) ==
    IF str = <<>> THEN {<<>>}
    ELSE {Append(front, c) : front \in CaseVariants(SubSeq(str, 1, Len(str) - 1)),
                             c \in {str[Len(str)], UpperChar(str[Len(str)])}}
OtherStrings ==
    {<<>>, <<"p","2","s","h">>, <<"v","0","_","p","2","w","s","h">>, <<"p","2","p">>,
     <<"p","2","p","k","h","h">>, <<"p","2","p","k"," ">>, <<" ","p","2","p","k">>,
     <<"v","1","p","2","t","r">>, <<"v","0","_","p","2","t","r">>,
     <<"o","p","_","r","e","t","u","r","n">>, <<"u","n","k","n","o","w","n">>,
     <<"e","x","p","o","s","e","d">>, <<"P","2","M","S">>}
ListedNames == {P2PK, V1_P2TR, P2PKH, V0_P2WPKH}
ScriptTypeInputs ==
    {JNull} \cup {JStr(str) : str \in UNION {CaseVariants(name) : name \in ListedNames}}
    \cup {JStr(str) : str \in OtherStrings}

\* Watchlist inputs.
Labels == {JNull, JStr(<<>>), JStr(<<"x">>)}
WatchAddrs == {AddrP2pkh, AddrBc1q, AddrBad}
WatchSummaries == {Ok(Summary(JNum(2), 10, 4)), Ok(SummaryChain("null")), HttpError(404, SummaryNotDict)}
GateSummaries == {Ok(Summary(JNum(2), 10, 4)), HttpError(404, SummaryNotDict)}
GateRows == 1

-----------------------------------------------------------------------------
(* The server: one request at a time                                       *)

NoReq == [op |-> "none"]
NoResp == Response("none", 0, NoBody)

Init ==
    /\ pc = "idle"
    /\ req = NoReq
    /\ resp = NoResp
    /\ calls = <<>>
    /\ watchlist = <<>>

\* A request arrives and is routed to its handler.
Receive(r) ==
    /\ pc = "idle"
    /\ req' = r
    /\ pc' = "serving"
    /\ UNCHANGED <<resp, calls, watchlist>>

QERequest(addr, summary, utxo) ==
    [op |-> "quantum_exposure", addr |-> addr, summary |-> summary, utxo |-> utxo]
RefreshRequest(addr, summary) == [op |-> "refresh_address", addr |-> addr, summary |-> summary]
AddRequest(addr, label) == [op |-> "add_watch", addr |-> addr, label |-> label]
ListRequest(source) == [op |-> "list_watch", source |-> source]

\* The handler's result r becomes the response, with the calls it made.
Serve(r) == resp' = r.resp /\ calls' = r.calls

\* GET /api/quantum_exposure/{addr}
QuantumExposure ==
    /\ pc = "serving" /\ req.op = "quantum_exposure"
    /\ Serve(quantum_exposure(req.addr, req.summary, req.utxo))
    /\ pc' = "done"
    /\ UNCHANGED <<req, watchlist>>

\* GET /api/address/{addr}
RefreshAddress ==
    /\ pc = "serving" /\ req.op = "refresh_address"
    /\ Serve(refresh_address(req.addr, req.summary))
    /\ pc' = "done"
    /\ UNCHANGED <<req, watchlist>>

\* The table after the handler returned r, with its response; it makes no external call.
Store(r) == resp' = r.resp /\ watchlist' = r.table /\ calls' = <<>>

\* POST /api/watchlist
AddWatch ==
    /\ pc = "serving" /\ req.op = "add_watch"
    /\ Store(add_watch(watchlist, [address |-> req.addr, label |-> req.label]))
    /\ pc' = "done"
    /\ UNCHANGED req

\* GET /api/watchlist
ListWatch ==
    /\ pc = "serving" /\ req.op = "list_watch"
    /\ Serve(list_watch(watchlist, req.source))
    /\ pc' = "done"
    /\ UNCHANGED <<req, watchlist>>

\* The response is sent and the server waits for the next request.
Respond ==
    /\ pc = "done"
    /\ pc' = "idle"
    /\ req' = NoReq
    /\ resp' = NoResp
    /\ calls' = <<>>
    /\ UNCHANGED watchlist

-----------------------------------------------------------------------------
(* The assessor on every kind of summary and UTXO set                      *)

Arrivals ==
    \/ \E addr \in QEAddrs, summary \in Summaries, utxo \in UtxoSetsOther :
            Receive(QERequest(addr, summary, utxo))
    \/ \E addr \in QEAddrs, summary \in Summaries :
       \E n \in SmallLens, base \in UtxoBases, special \in UtxoKinds : \E j \in 1..n :
            Receive(QERequest(addr, summary, Ok(UtxoList(ListOf(n, base, j, special)))))
    \/ \E addr \in {AddrP2pkh, AddrBc1p}, summary \in SummariesForBig :
       \E n \in BigLens, base \in UtxoBases, special \in BigKinds : \E j \in 1..n :
            Receive(QERequest(addr, summary, Ok(UtxoList(ListOf(n, base, j, special)))))

Next ==
    \/ pc = "idle" /\ Arrivals
    \/ QuantumExposure
    \/ Respond

Spec == Init /\ [][Next]_vars

-----------------------------------------------------------------------------
(* The three endpoints that take an address, on addresses around the       *)
(* pattern's edges                                                         *)

\* The table is kept to GateRows rows: a request that would add one more is not sent.
Fits(addr, label) ==
    Len(add_watch(watchlist, [address |-> addr, label |-> label]).table) <= GateRows

GateArrivals ==
    \/ \E addr \in GateAddrs : Fits(addr, JNull) /\ Receive(AddRequest(addr, JNull))
    \/ \E addr \in GateAddrs, summary \in GateSummaries : Receive(RefreshRequest(addr, summary))
    \/ \E addr \in GateAddrs, summary \in GateSummaries :
            Receive(QERequest(addr, summary, Ok(UtxoList(<<UtxoExposed>>))))

NextGate ==
    \/ pc = "idle" /\ GateArrivals
    \/ AddWatch
    \/ RefreshAddress
    \/ QuantumExposure
    \/ Respond

SpecGate == Init /\ [][NextGate]_vars

-----------------------------------------------------------------------------
(* The watchlist                                                           *)

WatchArrivals ==
    \/ \E addr \in WatchAddrs, label \in Labels : Receive(AddRequest(addr, label))
    \/ \E source \in [WatchAddrs -> WatchSummaries] : Receive(ListRequest(source))

NextWatch ==
    \/ pc = "idle" /\ WatchArrivals
    \/ AddWatch
    \/ ListWatch
    \/ Respond

SpecWatch == Init /\ [][NextWatch]_vars

-----------------------------------------------------------------------------
(* classify_script_type on its own                                         *)

InitClassify ==
    /\ pc = "serving"
    /\ req \in {[op |-> "classify_script_type", script_type |-> st] : st \in ScriptTypeInputs}
    /\ resp = NoResp
    /\ calls = <<>>
    /\ watchlist = <<>>

Classify ==
    /\ pc = "serving" /\ req.op = "classify_script_type"
    /\ resp' = Response("risk", 0, [risk |-> classify_script_type(req.script_type)])
    /\ pc' = "done"
    /\ UNCHANGED <<req, calls, watchlist>>

NextClassify == Classify

SpecClassify == InitClassify /\ [][NextClassify]_vars

-----------------------------------------------------------------------------
(* Properties of quantum_exposure                                          *)

QEDone == pc = "done" /\ req.op = "quantum_exposure"
Reported == QEDone /\ resp.kind = "report"
Source == req.utxo.json.items
FirstCap(n) == IF n <= Cap THEN n ELSE Cap

\* The historical spent-output count a summary states (0 when it states none).
HistoricalSpent(j) ==
    IF j.t = "dict" /\ j.chain_t = "dict" /\ j.spent_txo_count.t = "num" THEN j.spent_txo_count.n
    ELSE IF j.t = "dict" /\ j.chain_t = "dict" /\ j.spent_txo_count.t = "str"
    THEN DigitsValue(j.spent_txo_count.s)
    ELSE 0

\* The reuse signal, from the request's summary and the report's own fields.
ReuseSignal ==
    /\ HistoricalSpent(req.summary.json) > 0
    /\ resp.body.address_type_hint \in {"p2pkh", "p2wpkh_or_wsh"}
    /\ resp.body.analyzed_utxos > 0
AnyExposed == \E i \in DOMAIN resp.body.utxos : resp.body.utxos[i].risk = "exposed"

\* C1: in every report, overall_risk is "high" when some analyzed UTXO is
\* exposed (whatever the reuse signal), else "elevated" when the reuse signal
\* holds (spent count > 0, hint p2pkh or p2wpkh_or_wsh, at least one UTXO
\* analyzed), else "low"; with no UTXO analyzed it is "low".
C1_OverallRisk ==
    Reported =>
        /\ resp.body.overall_risk =
              IF AnyExposed THEN "high" ELSE IF ReuseSignal THEN "elevated" ELSE "low"
        /\ resp.body.analyzed_utxos = 0 => resp.body.overall_risk = "low"

\* An exposed UTXO at a reused hash-based address: "high" although the reuse signal holds.
C1_Witness ==
    /\ Reported /\ AnyExposed /\ ReuseSignal
    /\ \E i \in DOMAIN resp.body.utxos : resp.body.utxos[i].risk = "hashed"
    /\ resp.body.overall_risk = "high"

\* The value of a source entry in satoshi (a missing value counts as 0).
SourceSat(u) == IF u.value.t = "num" THEN u.value.n ELSE 0

\* The sum of the source values of the entries 1..k that the report labels exposed.
RECURSIVE ExposedSat(_)
ExposedSat(k) ==
    IF k = 0 THEN 0
    ELSE ExposedSat(k - 1)
         + (IF k \in DOMAIN resp.body.utxos /\ resp.body.utxos[k].risk = "exposed"
            THEN SourceSat(Source[k]) ELSE 0)

\* C2: the reported exposed value is the sum of value / 100,000,000 over the
\* UTXOs among the first 50 of the source whose risk is "exposed"; hashed and
\* unknown ones and everything from position 51 on add nothing.
C2_ExposedValue ==
    Reported =>
        /\ resp.body.exposed_value_btc.den = SatPerBtc
        /\ resp.body.exposed_value_btc.num = ExposedSat(FirstCap(Len(Source)))

\* More than 50 UTXOs, an exposed one inside the cap, a hashed one inside it
\* and an exposed one beyond it.
C2_Witness ==
    /\ Reported /\ Len(Source) > Cap
    /\ \E i \in 1..Cap : resp.body.utxos[i].risk = "exposed"
    /\ \E i \in 1..Cap : resp.body.utxos[i].risk = "hashed"
    /\ classify_script_type(ScriptTypeOf(Source[Cap + 1])) = "exposed"
    /\ resp.body.exposed_value_btc.num > 0

\* Both address lookups returned data of the expected shape, as far as the
\* request reads it: a summary whose chain_stats (if any) is an object with a
\* numeric or missing spent count, and a list whose first 50 entries are
\* objects with a numeric or missing value and no negative vout.
SummaryShaped(j) ==
    j.t = "dict" /\ j.chain_t \in {"dict", "absent"} /\ j.spent_txo_count.t \in {"num", "null"}
EntryShaped(u) ==
    u.t = "dict" /\ u.value.t \in {"num", "null"} /\ (u.vout.t = "num" => u.vout.n >= 0)
UtxosShaped(j) ==
    j.t = "list" /\ \A i \in 1..FirstCap(Len(j.items)) : EntryShaped(j.items[i])
Fetched ==
    /\ QEDone /\ resp.kind # "invalid"
    /\ req.summary.k = "ok" /\ req.utxo.k = "ok"

\* The lookup of u's transaction fails, or u's vout is not an index of its outputs.
LookupFails(u) == TxSource(u.txid).k # "ok"
OutOfRange(u) ==
    /\ TxSource(u.txid).k = "ok" /\ TxSource(u.txid).json.t = "dict"
    /\ u.vout.t = "num" /\ u.vout.n >= Len(TxSource(u.txid).json.vout)
\* The lookup succeeds and u names an output object of a well-formed transaction.
Resolves(u) ==
    /\ TxSource(u.txid).k = "ok" /\ TxSource(u.txid).json.t = "dict"
    /\ TxSource(u.txid).json.vout_t = "list"
    /\ u.vout.t = "num" /\ u.vout.n >= 0 /\ u.vout.n < Len(TxSource(u.txid).json.vout)
    /\ TxSource(u.txid).json.vout[u.vout.n + 1].t = "dict"
OwnType(u) == TxSource(u.txid).json.vout[u.vout.n + 1].scriptpubkey_type
\* No retained UTXO resolves to a script type that is neither a string nor absent.
TypesShaped ==
    \A i \in 1..FirstCap(Len(Source)) : Resolves(Source[i]) => OwnType(Source[i]).t \in {"str", "null"}

C4_FetchFailureAborts ==
    (QEDone /\ resp.kind # "invalid" /\ (req.summary.k # "ok" \/ req.utxo.k # "ok")) =>
        /\ resp.kind \in {"upstream", "generic"}
        /\ \A i \in DOMAIN calls : calls[i].api # "tx"
        /\ req.summary.k = "http" => resp.kind = "upstream" /\ resp.status = req.summary.status
        /\ req.summary.k = "err" => resp.kind = "generic" /\ resp.status = 502
        /\ req.summary.k # "ok" => calls = <<Call("summary", JStr(req.addr))>>
        /\ (req.summary.k = "ok" /\ req.utxo.k = "http") =>
              resp.kind = "upstream" /\ resp.status = req.utxo.status
        /\ (req.summary.k = "ok" /\ req.utxo.k = "err") =>
              resp.kind = "generic" /\ resp.status = 502
        /\ req.summary.k = "ok" =>
              calls = <<Call("summary", JStr(req.addr)), Call("utxo", JStr(req.addr))>>

\* The summary is fetched, the UTXO-set fetch is answered 404: status 404 is passed on.
C4_Witness ==
    /\ QEDone /\ req.summary.k = "ok" /\ req.utxo.k = "http" /\ req.utxo.status = 404
    /\ resp.kind = "upstream" /\ resp.status = 404 /\ Len(calls) = 2

\* C7: in every report, notes holds the reuse advisory iff the reuse signal
\* holds, then the migration advisory iff overall_risk is "high".
C7_Notes ==
    Reported =>
        resp.body.notes =
            (IF ReuseSignal THEN <<ReuseNote>> ELSE <<>>)
            \o (IF resp.body.overall_risk = "high" THEN <<MigrateNote>> ELSE <<>>)

\* An exposed UTXO at a reused address: both advisories, the reuse advisory first.
C7_Witness ==
    /\ Reported /\ ReuseSignal /\ AnyExposed
    /\ resp.body.notes = <<ReuseNote, MigrateNote>>

\* A lookup returned data that is not of the expected shape.
Malformed ==
    \/ ~SummaryShaped(req.summary.json)
    \/ req.utxo.json.t # "list"
    \/ \E i \in DOMAIN Source : ~EntryShaped(Source[i])

\* C8: when the summary or the UTXO-set lookup succeeds but returns data that
\* is not of the expected shape, the request ends in the generic failure (502),
\* never in an unhandled error or a report.
C8_MalformedIsGeneric ==
    (Fetched /\ Malformed) => resp.kind = "generic" /\ resp.status = 502

\* C9: in every report over n source UTXOs, analyzed_utxos = min(n, 50) =
\* len(utxos), and the i-th entry carries the txid, vout and value of the i-th
\* source UTXO.
C9_OrderAndCount ==
    Reported =>
        /\ resp.body.analyzed_utxos = FirstCap(Len(Source))
        /\ Len(resp.body.utxos) = resp.body.analyzed_utxos
        /\ \A i \in DOMAIN resp.body.utxos :
              /\ i \in DOMAIN Source
              /\ resp.body.utxos[i].txid = Source[i].txid
              /\ resp.body.utxos[i].vout = Source[i].vout
              /\ resp.body.utxos[i].value_btc = [num |-> SourceSat(Source[i]), den |-> SatPerBtc]

\* 51 or more source UTXOs, one of the first 50 with a failed lookup and
\* unlike its neighbours: 50 entries, that one in its place.
C9_Witness ==
    /\ Reported /\ Len(Source) > Cap /\ resp.body.analyzed_utxos = Cap
    /\ \E i \in 2..(Cap - 1) :
          /\ LookupFails(Source[i]) /\ ~LookupFails(Source[i - 1])
          /\ resp.body.utxos[i].txid = Source[i].txid
          /\ resp.body.utxos[i - 1].txid # Source[i].txid

-----------------------------------------------------------------------------
(* Properties of the address gate, the classifier and the watchlist        *)

\* The mainnet pattern: bc1, 1 or 3, then 25 to 87 characters of the alphabet, and nothing else.
MainnetPattern(a) ==
    \E p \in {<<"b","c","1">>, <<"1">>, <<"3">>} :
        /\ StartsWith(a, p)
        /\ Len(a) - Len(p) >= MinBody /\ Len(a) - Len(p) <= MaxBody
        /\ \A i \in (Len(p) + 1)..Len(a) : a[i] \in AddrClass

\* C5: on each of the three endpoints that take an address, an address that
\* does not match the mainnet pattern is answered 400 before any external call
\* is made, and no row is ever written for one.
C5_InvalidRejectedFirst ==
    /\ (pc = "done" /\ req.op \in {"add_watch", "refresh_address", "quantum_exposure"}
           /\ ~MainnetPattern(req.addr)) =>
          resp.kind = "invalid" /\ resp.status = 400 /\ calls = <<>>
    /\ \A i \in DOMAIN watchlist : MainnetPattern(watchlist[i].address)

EqIgnoringCase(a, b) ==
    Len(a) = Len(b) /\ \A i \in DOMAIN a : UpperChar(a[i]) = UpperChar(b[i])

\* C6: classify_script_type returns, for every optional string, "exposed" when
\* it equals p2pk or v1_p2tr ignoring case, "hashed" when it equals p2pkh or
\* v0_p2wpkh ignoring case, and "unknown" for None, "" and every other string.
C6_ClassifierTable ==
    (pc = "done" /\ req.op = "classify_script_type") =>
        /\ ~classify_raises(req.script_type)
        /\ resp.body.risk =
              IF req.script_type.t = "str"
                 /\ \E name \in {P2PK, V1_P2TR} : EqIgnoringCase(req.script_type.s, name)
              THEN "exposed"
              ELSE IF req.script_type.t = "str"
                      /\ \E name \in {P2PKH, V0_P2WPKH} : EqIgnoringCase(req.script_type.s, name)
              THEN "hashed"
              ELSE "unknown"

\* v1_p2tr in mixed case is classified exposed.
C6_Witness ==
    /\ pc = "done" /\ req.op = "classify_script_type"
    /\ req.script_type = JStr(<<"V","1","_","p","2","T","r">>)
    /\ resp.body.risk = "exposed"

SamePair(row, addr, label) == row.address = addr /\ row.label = label
StoredAt(addr, label) == {i \in DOMAIN watchlist : SamePair(watchlist[i], addr, label)}
IsPrefix(a, b) == Len(a) <= Len(b) /\ SubSeq(b, 1, Len(a)) = a

UniquePairs ==
    \A i, j \in DOMAIN watchlist :
        i # j => ~SamePair(watchlist[i], watchlist[j].address, watchlist[j].label)

\* What a step of add_watch does to the table and what it answers.
AddWatchStep ==
    (pc = "serving" /\ req.op = "add_watch" /\ pc' = "done") =>
        IF StoredAt(req.addr, req.label) # {}
        THEN /\ watchlist' = watchlist
             /\ resp'.kind = "watch"
             /\ \E i \in StoredAt(req.addr, req.label) : resp'.body.id = watchlist[i].id
        ELSE IF resp'.kind = "watch"
        THEN /\ Len(watchlist') = Len(watchlist) + 1
             /\ SamePair(watchlist'[Len(watchlist')], req.addr, req.label)
             /\ resp'.body.id = watchlist'[Len(watchlist')].id
             /\ \A i \in DOMAIN watchlist : watchlist[i].id # resp'.body.id
        ELSE watchlist' = watchlist

\* C10: starting from an empty table, no two rows ever share (address, label),
\* None being one label; add_watch on a stored pair adds no row and answers
\* the stored row's id, on a new pair (same address, other label included) it
\* appends one row; no step changes or removes a row.
C10_WatchlistPairsUnique ==
    /\ []UniquePairs
    /\ [][AddWatchStep /\ IsPrefix(watchlist, watchlist')]_vars

\* One address under two labels, one of them None, and a repeated add of
\* the first pair answered with the first row's id.
C10_Witness ==
    /\ pc = "done" /\ req.op = "add_watch" /\ Len(watchlist) = 2
    /\ watchlist[1].address = watchlist[2].address
    /\ watchlist[1].label = JNull /\ watchlist[2].label # JNull
    /\ SamePair(watchlist[1], req.addr, req.label)
    /\ resp.kind = "watch" /\ resp.body.id = watchlist[1].id

====
